---- MODULE Spec2Model ----
(***************************************************************************)
(* A model of nautilus_trader/common/msgbus.pyx: the MessageBus with its   *)
(* endpoint table, correlation index, subscription index and resolution    *)
(* cache, the Subscription value and the wildcard matcher is_matching.     *)
(*                                                                         *)
(* Strings are sequences of code points, so that the matcher can index     *)
(* them and sorted() can compare them as Python compares str.              *)
(* Handlers are opaque names; a handler call is recorded in `invoked` and   *)
(* returns normally unless the handler is in `raising`.                    *)
(***************************************************************************)
EXTENDS Integers, Sequences, FiniteSets, TLC

\* The two wildcard metacharacters, as code points.
STAR == 42
QMARK == 63

\* ------------------------------------------------------------------ bounds
MaxCount == 2

\* The longest string is_matching is given, the named examples aside.
MaxLen == 3

\* ------------------------------------------------------------------ inputs
\* "ab", "ac": concrete topics.  "a*", "a?": strings with a wildcard character.
Str_ab == <<97, 98>>
Str_ac == <<97, 99>>
Str_aStar == <<97, STAR>>
Str_aQ == <<97, QMARK>>

\* The (topic, handler) pairs handed to subscribe and unsubscribe: a literal
\* topic, and a `*` pattern under the same and under another handler.
SubKeys ==
    { [topic |-> Str_ab, handler |-> "h1"],
      [topic |-> Str_aStar, handler |-> "h1"],
      [topic |-> Str_aStar, handler |-> "h2"] }
\* Topics handed to publish.  The code accepts any str, so one of them holds
\* a wildcard character.
PubTopics == {Str_ab, Str_ac, Str_aQ}
Priorities == {0, 1}
\* Messages, each with its concrete type.
Msg1 == [id |-> "m1", type |-> "TypeA"]
Msg2 == [id |-> "m2", type |-> "TypeB"]
Msg3 == [id |-> "m3", type |-> "TypeC"]
Msgs == {Msg1, Msg2}

\* The strings is_matching is applied to: every string of at most MaxLen
\* characters over 'a', 'b', '*' and '?', and the examples 'comp', 'comp*',
\* 'cmp' and 'c?mp'.
Alphabet == {97, 98, STAR, QMARK}
Str_comp == <<99, 111, 109, 112>>
Str_compStar == <<99, 111, 109, 112, STAR>>
Str_cmp == <<99, 109, 112>>
Str_cQmp == <<99, QMARK, 109, 112>>
MatchStrings ==
    UNION {[1..n -> Alphabet] : n \in 0..MaxLen}
        \cup {Str_comp, Str_compStar, Str_cmp, Str_cQmp}

\* The message types, and the ones the serialization layer lists for external
\* publishing.
Types == {"TypeA", "TypeB", "TypeC"}
EXTERNAL_PUBLISHING_TYPES == {"TypeA", "TypeB"}

\* config.types_filter: None, or a list of types.
NoFilter == [is_none |-> TRUE, types |-> {}]
TypesFilters == {NoFilter, [is_none |-> FALSE, types |-> {"TypeB"}]}

\* The serializer argument: None, or a serializer.
Serializers == {"None", "serializer"}

\* The handlers of subscriptions, endpoints and callbacks that may raise.
MayRaise == {"h1", "e1", "cb1"}
Endpoints == {"svc", "nope"}
EndpointHandlers == {"e1", "e2"}
RequestIds == {"x1", "x2"}
Callbacks == {"cb1", "cb2"}
Requests == [id : RequestIds, callback : Callbacks]
Responses == [correlation_id : RequestIds]

\* A topic without wildcard characters (the glossary's concrete topic).
IsConcrete(topic) == \A i \in 1..Len(topic) : topic[i] # STAR /\ topic[i] # QMARK

\* ------------------------------------------------------------------ state
VARIABLES
    _endpoints,          \* dict[str, handler]
    _patterns,           \* dict[str, Subscription[:]]: the resolution cache
    _subscriptions,      \* dict[Subscription, list[str]], in insertion order
    _correlation_index,  \* dict[UUID4, callback]
    sent_count,
    req_count,
    res_count,
    pub_count,
    last,                \* the last call: its name, arguments and outcome
    invoked,             \* the handler calls the last call made, in order
    registered,          \* history: the live subscriptions as accepted, oldest first
    cache_by,            \* history: per cached topic, the call that wrote it last
    cb_calls,            \* history: callback calls per request id since accepted
    first_cb,            \* history: per pending id, the callback of the accepted request
    _has_backing,        \* config.database is not None
    _serializer,         \* the serializer, or None
    _publishable_types,  \* the message types that may be published externally
    raising,             \* environment: the handlers whose call raises
    emitted,             \* the (topic, payload) pairs the last call gave the external sink
    stack,               \* the publish_c calls in flight, innermost last
    trace                \* history: what the publish_c calls in flight and finished did,
                         \* with the cached sequence of the topic at a call and at the count

\* The four tables and the four counters.
tables == <<_endpoints, _patterns, _subscriptions, _correlation_index>>
counters == <<sent_count, req_count, res_count, pub_count>>

\* What construction and the environment fix.
fixed == <<_has_backing, _serializer, _publishable_types, raising>>

vars == <<_endpoints, _patterns, _subscriptions, _correlation_index,
          sent_count, req_count, res_count, pub_count,
          last, invoked, registered, cache_by, cb_calls, first_cb,
          fixed, emitted, stack, trace>>

\* ------------------------------------------------------------------ helpers
Range(s) == {s[i] : i \in 1..Len(s)}

\* str < str, as Python compares: by code point, a proper prefix first.
StrLess(s, t) ==
    \E i \in 1..(Len(s) + 1) :
        /\ \A k \in 1..(i - 1) : k <= Len(t) /\ s[k] = t[k]
        /\ i <= Len(t)
        /\ (i > Len(s) \/ s[i] < t[i])

\* One step of a stable ascending insertion over strings.
InsertStr(s, x) ==
    LET after == {i \in 1..Len(s) : StrLess(x, s[i])}
        pos == IF after = {} THEN Len(s) + 1
               ELSE CHOOSE i \in after : \A k \in after : i <= k
    IN SubSeq(s, 1, pos - 1) \o <<x>> \o SubSeq(s, pos, Len(s))

RECURSIVE sorted(_)
\* sorted(list[str])
sorted(s) ==
    IF s = <<>> THEN <<>>
    ELSE InsertStr(sorted(SubSeq(s, 1, Len(s) - 1)), s[Len(s)])

RECURSIVE SetToSeq(_)
SetToSeq(S) ==
    IF S = {} THEN <<>>
    ELSE LET x == CHOOSE x \in S : TRUE IN <<x>> \o SetToSeq(S \ {x})

\* ------------------------------------------------------------------ matcher
\* A table in which `*` stands for one or more characters.
MatchTableOneOrMore(topic, pattern) ==
    LET n == Len(topic)
        m == Len(pattern)
        t[i \in 0..n, j \in 0..m] ==
            IF i = 0 /\ j = 0 THEN TRUE
            ELSE IF j = 0 \/ i = 0 THEN FALSE
            ELSE IF pattern[j] = STAR THEN t[i - 1, j] \/ t[i - 1, j - 1]
            ELSE IF pattern[j] = QMARK \/ topic[i] = pattern[j] THEN t[i - 1, j - 1]
            ELSE FALSE
    IN t

\* The DP table of is_matching: t[i, j] for 0 <= i <= n, 0 <= j <= m.
MatchTable(topic, pattern) ==
    LET n == Len(topic)
        m == Len(pattern)
        t[i \in 0..n, j \in 0..m] ==
            IF i = 0 /\ j = 0 THEN TRUE
            ELSE IF j = 0 THEN FALSE
            ELSE IF i = 0 THEN (IF pattern[j] = STAR THEN t[0, j - 1] ELSE FALSE)
            ELSE IF pattern[j] = STAR THEN t[i - 1, j] \/ t[i, j - 1]
            ELSE IF pattern[j] = QMARK \/ topic[i] = pattern[j] THEN t[i - 1, j - 1]
            ELSE FALSE
    IN t

is_matching(topic, pattern) == MatchTable(topic, pattern)[Len(topic), Len(pattern)]

\* ------------------------------------------------------------------ Subscription
Subscription(topic, handler, priority) ==
    [topic |-> topic, handler |-> handler, priority |-> priority]

\* An equality that also compares the priority.
SubEqWithPriority(a, b) ==
    a.topic = b.topic /\ a.handler = b.handler /\ a.priority = b.priority

\* Subscription.__eq__: topic and handler, not priority.
SubEq(a, b) == a.topic = b.topic /\ a.handler = b.handler

\* Subscription.__lt__
SubLt(a, b) == a.priority < b.priority

\* As InsertDesc, but x goes before the elements equal to it.
InsertDescUnstable(s, x) ==
    LET after == {i \in 1..Len(s) : ~SubLt(x, s[i])}
        pos == IF after = {} THEN Len(s) + 1
               ELSE CHOOSE i \in after : \A k \in after : i <= k
    IN SubSeq(s, 1, pos - 1) \o <<x>> \o SubSeq(s, pos, Len(s))

\* One step of a stable descending insertion: x goes after every element that
\* is not less than it.
InsertDesc(s, x) ==
    LET after == {i \in 1..Len(s) : SubLt(s[i], x)}
        pos == IF after = {} THEN Len(s) + 1
               ELSE CHOOSE i \in after : \A k \in after : i <= k
    IN SubSeq(s, 1, pos - 1) \o <<x>> \o SubSeq(s, pos, Len(s))

RECURSIVE sorted_reverse(_)
\* sorted(list[Subscription], reverse=True): stable, highest priority first.
sorted_reverse(s) ==
    IF s = <<>> THEN <<>>
    ELSE InsertDesc(sorted_reverse(SubSeq(s, 1, Len(s) - 1)), s[Len(s)])

\* `sub in list`, by __eq__.
InList(s, sub) == \E i \in 1..Len(s) : SubEq(s[i], sub)

\* A removal that leaves the list as it is.
ListRemoveNothing(s, sub) == s

\* A removal of the last element, whichever it is.
ListRemoveLast(s, sub) == SubSeq(s, 1, Len(s) - 1)

\* list.remove(sub): the first element equal to sub is dropped.
ListRemove(s, sub) ==
    LET i == CHOOSE i \in 1..Len(s) :
                 SubEq(s[i], sub) /\ \A k \in 1..(i - 1) : ~SubEq(s[k], sub)
    IN SubSeq(s, 1, i - 1) \o SubSeq(s, i + 1, Len(s))

\* `sub in self._subscriptions`
HasSub(subs, sub) == \E i \in 1..Len(subs) : SubEq(subs[i].sub, sub)

\* The position of sub's key in the dict.
SubIndex(subs, sub) == CHOOSE i \in 1..Len(subs) : SubEq(subs[i].sub, sub)

\* del self._subscriptions[sub]
DelSub(subs, sub) ==
    LET i == SubIndex(subs, sub)
    IN SubSeq(subs, 1, i - 1) \o SubSeq(subs, i + 1, Len(subs))

\* ------------------------------------------------------------------ Init
\* self._publishable_types after __init__
publishable_types(types_filter) ==
    IF types_filter.is_none THEN EXTERNAL_PUBLISHING_TYPES
    ELSE {o \in EXTERNAL_PUBLISHING_TYPES : o \notin types_filter.types}

\* The tables, the counters and the history after __init__.
InitTables ==
    /\ _endpoints = <<>>
    /\ _patterns = <<>>
    /\ _subscriptions = <<>>
    /\ _correlation_index = <<>>
    /\ sent_count = 0
    /\ req_count = 0
    /\ res_count = 0
    /\ pub_count = 0
    /\ invoked = <<>>
    /\ registered = <<>>
    /\ cache_by = <<>>
    /\ cb_calls = [id \in RequestIds |-> 0]
    /\ first_cb = <<>>
    /\ emitted = <<>>
    /\ stack = <<>>

\* __init__(database, serializer, types_filter)
construct(database, serializer, types_filter) ==
    /\ InitTables
    /\ _serializer = serializer
    /\ _has_backing = database
    /\ _publishable_types = publishable_types(types_filter)

\* The default construction: no serializer, no database, no filter; every
\* handler returns normally.
Init ==
    /\ construct(FALSE, "None", NoFilter)
    /\ raising = {}
    /\ last = [op |-> "init", args |-> <<>>, outcome |-> "ok", raised |-> FALSE]
    /\ trace = <<>>

\* ------------------------------------------------------------------ subscribe
\* The cached topics the loop of subscribe rewrites.
subscribe_matches(topic) == {pattern \in DOMAIN _patterns : is_matching(topic, pattern)}

subscribe(topic, handler, priority) ==
    LET sub == Subscription(topic, handler, priority)
        hit == subscribe_matches(topic)
    IN
    IF HasSub(_subscriptions, sub) THEN
        /\ last' = [op |-> "subscribe",
                    args |-> [topic |-> topic, handler |-> handler, priority |-> priority],
                    outcome |-> "exists", raised |-> FALSE]
        /\ invoked' = <<>>
        /\ emitted' = <<>>
        /\ UNCHANGED <<fixed, stack, trace>>
        /\ UNCHANGED <<_endpoints, _patterns, _subscriptions, _correlation_index,
                       sent_count, req_count, res_count, pub_count,
                       registered, cache_by, cb_calls, first_cb>>
    ELSE
        /\ _patterns' = [pattern \in DOMAIN _patterns |->
                            IF pattern \in hit
                            THEN sorted_reverse(Append(_patterns[pattern], sub))
                            ELSE _patterns[pattern]]
        /\ _subscriptions' = Append(_subscriptions,
                                    [sub |-> sub, matches |-> sorted(SetToSeq(hit))])
        /\ registered' = Append(registered, sub)
        /\ cache_by' = [pattern \in DOMAIN _patterns |->
                            IF pattern \in hit THEN "subscribe" ELSE cache_by[pattern]]
        /\ last' = [op |-> "subscribe",
                    args |-> [topic |-> topic, handler |-> handler, priority |-> priority],
                    outcome |-> "added", raised |-> FALSE]
        /\ invoked' = <<>>
        /\ emitted' = <<>>
        /\ UNCHANGED <<fixed, stack, trace>>
        /\ UNCHANGED <<_endpoints, _correlation_index,
                       sent_count, req_count, res_count, pub_count, cb_calls, first_cb>>

\* ------------------------------------------------------------------ unsubscribe
\* A loop that leaves every cached sequence as it is.
unsubscribe_loop_keeps(patterns, i, cache, sub) == [cache |-> cache, raised |-> FALSE]

RECURSIVE unsubscribe_loop(_, _, _, _)
\* The loop of unsubscribe from position i of `patterns`: the cache it leaves
\* and whether `self._patterns[pattern]` or `subs.remove(sub)` raised.
unsubscribe_loop(patterns, i, cache, sub) ==
    IF i > Len(patterns) THEN [cache |-> cache, raised |-> FALSE]
    ELSE LET pattern == patterns[i] IN
         IF pattern \notin DOMAIN cache \/ ~InList(cache[pattern], sub)
         THEN [cache |-> cache, raised |-> TRUE]
         ELSE unsubscribe_loop(patterns, i + 1,
                  [cache EXCEPT ![pattern] = sorted_reverse(ListRemove(cache[pattern], sub))],
                  sub)

unsubscribe(topic, handler) ==
    LET sub == Subscription(topic, handler, 0) IN
    IF ~HasSub(_subscriptions, sub) THEN
        /\ last' = [op |-> "unsubscribe",
                    args |-> [topic |-> topic, handler |-> handler],
                    outcome |-> "not_found", raised |-> FALSE]
        /\ invoked' = <<>>
        /\ emitted' = <<>>
        /\ UNCHANGED <<fixed, stack, trace>>
        /\ UNCHANGED <<_endpoints, _patterns, _subscriptions, _correlation_index,
                       sent_count, req_count, res_count, pub_count,
                       registered, cache_by, cb_calls, first_cb>>
    ELSE
        LET patterns == _subscriptions[SubIndex(_subscriptions, sub)].matches
            done == unsubscribe_loop(patterns, 1, _patterns, sub)
        IN
        /\ _patterns' = done.cache
        /\ cache_by' = [pattern \in DOMAIN _patterns |->
                            IF _patterns'[pattern] # _patterns[pattern] THEN "unsubscribe"
                            ELSE cache_by[pattern]]
        /\ _subscriptions' = IF done.raised THEN _subscriptions
                             ELSE DelSub(_subscriptions, sub)
        /\ registered' = IF done.raised THEN registered
                         ELSE SelectSeq(registered,
                                  LAMBDA r : ~(r.topic = topic /\ r.handler = handler))
        /\ last' = [op |-> "unsubscribe",
                    args |-> [topic |-> topic, handler |-> handler],
                    outcome |-> IF done.raised THEN "raised" ELSE "removed",
                    raised |-> done.raised]
        /\ invoked' = <<>>
        /\ emitted' = <<>>
        /\ UNCHANGED <<fixed, stack, trace>>
        /\ UNCHANGED <<_endpoints, _correlation_index,
                       sent_count, req_count, res_count, pub_count, cb_calls, first_cb>>

\* ------------------------------------------------------------------ publish
\* As resolve_subs, with the arguments of is_matching exchanged.
resolve_subs_swapped(topic) ==
    LET keys == [i \in 1..Len(_subscriptions) |-> _subscriptions[i].sub]
    IN sorted_reverse(SelectSeq(keys, LAMBDA s : is_matching(s.topic, topic)))

\* subs_list of _resolve_subscriptions: the matching keys in dict order, sorted.
resolve_subs(topic) ==
    LET keys == [i \in 1..Len(_subscriptions) |-> _subscriptions[i].sub]
    IN sorted_reverse(SelectSeq(keys, LAMBDA s : is_matching(topic, s.topic)))

\* An index that does not record `topic`.
resolve_index_forgets(topic, subs_array) == _subscriptions

\* The index after _resolve_subscriptions recorded `topic` against each match.
resolve_index(topic, subs_array) ==
    [i \in 1..Len(_subscriptions) |->
        LET e == _subscriptions[i] IN
        IF InList(subs_array, e.sub)
        THEN [sub |-> e.sub,
              matches |-> sorted(IF topic \in Range(e.matches) THEN e.matches
                                 ELSE Append(e.matches, topic))]
        ELSE e]

\* The handler calls of the dispatch loop of publish_c.
dispatch(subs, msg) ==
    [i \in 1..Len(subs) |->
        [handler |-> subs[i].handler, msg |-> msg, topic |-> subs[i].topic]]

\* A counter that goes up on every call.
counted_always(count, delivered) == count + 1

\* `self.<op>_count += 1`, the last statement of send, request, response and
\* publish_c: reached when the call got to its handlers and they returned.
counted(count, delivered) == IF delivered THEN count + 1 ELSE count

\* A loop that goes on after a call that raised.
until_raise_goes_on(calls) == calls

\* The calls made until the first one that raises, that one included.
until_raise(calls) ==
    LET bad == {i \in 1..Len(calls) : calls[i].handler \in raising}
    IN IF bad = {} THEN calls
       ELSE SubSeq(calls, 1, CHOOSE i \in bad : \A k \in bad : i <= k)

\* Whether a call of the sequence raised.
raises(calls) == \E i \in 1..Len(calls) : calls[i].handler \in raising

\* A test that lets every message out.
publishes_externally_always(msg) == TRUE

\* The two conditions of publish_c on external publishing.
publishes_externally(msg) ==
    /\ _has_backing /\ _serializer # "None"
    /\ msg.type \in _publishable_types

\* self._serializer.serialize(msg)
serialize(msg) == [bytes_of |-> msg.id]

\* What msgbus_publish_external is given.
external(topic, msg) == [topic |-> topic, payload |-> serialize(msg)]

\* A publish that resolves the topic at every call, cached or not.
publish_always_resolves(topic, msg) ==
    LET subs == resolve_subs(topic)
        raised == raises(dispatch(subs, msg))
    IN
    /\ pub_count < MaxCount
    /\ _patterns' = [t \in DOMAIN _patterns \cup {topic} |->
                        IF t = topic THEN subs ELSE _patterns[t]]
    /\ _subscriptions' = resolve_index(topic, subs)
    /\ cache_by' = [t \in DOMAIN _patterns \cup {topic} |->
                       IF t = topic THEN "resolve" ELSE cache_by[t]]
    /\ invoked' = until_raise(dispatch(subs, msg))
    /\ emitted' = IF ~raised /\ publishes_externally(msg)
                  THEN <<external(topic, msg)>> ELSE <<>>
    /\ pub_count' = counted(pub_count, ~raised)
    /\ last' = [op |-> "publish",
                args |-> [topic |-> topic, msg |-> msg],
                outcome |-> "resolved",
                raised |-> raised]
    /\ UNCHANGED <<fixed, stack, trace>>
    /\ UNCHANGED <<_endpoints, _correlation_index,
                   sent_count, req_count, res_count, registered, cb_calls, first_cb>>

publish(topic, msg) ==
    LET miss == topic \notin DOMAIN _patterns
        subs == IF miss THEN resolve_subs(topic) ELSE _patterns[topic]
        raised == raises(dispatch(subs, msg))
    IN
    /\ pub_count < MaxCount
    /\ _patterns' = IF miss
                    THEN [t \in DOMAIN _patterns \cup {topic} |->
                             IF t = topic THEN subs ELSE _patterns[t]]
                    ELSE _patterns
    /\ _subscriptions' = IF miss THEN resolve_index(topic, subs) ELSE _subscriptions
    /\ cache_by' = IF miss
                   THEN [t \in DOMAIN _patterns \cup {topic} |->
                            IF t = topic THEN "resolve" ELSE cache_by[t]]
                   ELSE cache_by
    /\ invoked' = until_raise(dispatch(subs, msg))
    /\ emitted' = IF ~raised /\ publishes_externally(msg)
                  THEN <<external(topic, msg)>> ELSE <<>>
    /\ pub_count' = counted(pub_count, ~raised)
    /\ last' = [op |-> "publish",
                args |-> [topic |-> topic, msg |-> msg],
                outcome |-> IF miss THEN "resolved" ELSE "cached",
                raised |-> raised]
    /\ UNCHANGED <<fixed, stack, trace>>
    /\ UNCHANGED <<_endpoints, _correlation_index,
                   sent_count, req_count, res_count, registered, cb_calls, first_cb>>

\* ------------------------------------------------------------------ publish_c, step by step
\* A handler may call the bus while publish_c is in its dispatch loop. The
\* steps of publish_c are the lookup with its resolution, each handler call
\* and its return, the external publish and the count; `stack` holds one frame
\* per publish_c in flight, with the locals topic, msg, subs, i and sub.

\* The innermost publish_c in flight.
top == stack[Len(stack)]

\* The publish_c calls made so far.
begun == Cardinality({n \in 1..Len(trace) : trace[n].kind = "begin"})

\* Who may call the bus: its owner when no publish_c is in flight, or the
\* handler that the innermost publish_c is running.
may_call == IF stack = <<>> THEN TRUE ELSE top.pc = "handler"

\* A loop that reads the cache again at each turn.
frame_subs_live(frame) == _patterns[frame.topic]

\* The local `subs` of publish_c: the array that the lookup or the resolution
\* returned, held for the whole loop.
frame_subs(frame) == frame.subs

\* The local `sub` of publish_c before the loop assigns it.
NoSub == [topic |-> <<>>, handler |-> "None", priority |-> 0]

\* The lookup and the resolution of publish_c.
publish_c_begin(topic, msg) ==
    LET miss == topic \notin DOMAIN _patterns
        subs == IF miss THEN resolve_subs(topic) ELSE _patterns[topic]
        id == begun + 1
    IN
    /\ may_call
    /\ begun < MaxCount
    /\ _patterns' = IF miss
                    THEN [t \in DOMAIN _patterns \cup {topic} |->
                             IF t = topic THEN subs ELSE _patterns[t]]
                    ELSE _patterns
    /\ _subscriptions' = IF miss THEN resolve_index(topic, subs) ELSE _subscriptions
    /\ cache_by' = IF miss
                   THEN [t \in DOMAIN _patterns \cup {topic} |->
                            IF t = topic THEN "resolve" ELSE cache_by[t]]
                   ELSE cache_by
    /\ stack' = Append(stack, [id |-> id, topic |-> topic, msg |-> msg,
                               subs |-> subs, i |-> 1, sub |-> NoSub, pc |-> "loop"])
    /\ trace' = Append(trace, [kind |-> "begin", id |-> id, topic |-> topic,
                               msg |-> msg, subs |-> subs])
    /\ UNCHANGED <<_endpoints, _correlation_index, counters, last, invoked, emitted,
                   registered, cb_calls, first_cb, fixed>>

\* sub = subs[i]; sub.handler(msg): the handler is entered.
publish_c_call ==
    /\ stack # <<>> /\ top.pc = "loop"
    /\ top.i <= Len(frame_subs(top))
    /\ LET sub == frame_subs(top)[top.i] IN
       trace' = Append(trace, [kind |-> "call", id |-> top.id, handler |-> sub.handler,
                               topic |-> sub.topic, msg |-> top.msg,
                               cache |-> _patterns[top.topic]])
    /\ stack' = [stack EXCEPT ![Len(stack)].pc = "handler",
                              ![Len(stack)].sub = frame_subs(top)[top.i]]
    /\ UNCHANGED <<tables, counters, last, invoked, emitted,
                   registered, cache_by, cb_calls, first_cb, fixed>>

\* The handler returns, and the loop goes on; or it raises, and the exception
\* leaves every publish_c in flight.
handler_return ==
    /\ stack # <<>> /\ top.pc = "handler"
    /\ LET sub == top.sub IN
       IF sub.handler \in raising
       THEN /\ stack' = <<>>
            /\ trace' = Append(trace, [kind |-> "raise", id |-> top.id,
                                       handler |-> sub.handler])
       ELSE /\ stack' = [stack EXCEPT ![Len(stack)].pc = "loop",
                                      ![Len(stack)].i = top.i + 1]
            /\ trace' = Append(trace, [kind |-> "return", id |-> top.id,
                                       handler |-> sub.handler])
    /\ UNCHANGED <<tables, counters, last, invoked, emitted,
                   registered, cache_by, cb_calls, first_cb, fixed>>

\* After the loop: the external publish, if configured.
publish_c_external ==
    /\ stack # <<>> /\ top.pc = "loop"
    /\ top.i > Len(frame_subs(top))
    /\ trace' = IF publishes_externally(top.msg)
                THEN Append(trace, [kind |-> "emit", id |-> top.id,
                                    pair |-> external(top.topic, top.msg)])
                ELSE trace
    /\ stack' = [stack EXCEPT ![Len(stack)].pc = "count"]
    /\ UNCHANGED <<tables, counters, last, invoked, emitted,
                   registered, cache_by, cb_calls, first_cb, fixed>>

\* self.pub_count += 1, and publish_c returns to its caller.
publish_c_count ==
    /\ stack # <<>> /\ top.pc = "count"
    /\ pub_count' = counted(pub_count, TRUE)
    /\ stack' = SubSeq(stack, 1, Len(stack) - 1)
    /\ trace' = Append(trace, [kind |-> "count", id |-> top.id,
                               cache |-> _patterns[top.topic]])
    /\ UNCHANGED <<tables, sent_count, req_count, res_count, last, invoked, emitted,
                   registered, cache_by, cb_calls, first_cb, fixed>>

\* ------------------------------------------------------------------ endpoints
\* dict[key] = value
DictSet(d, key, value) ==
    [k \in DOMAIN d \cup {key} |-> IF k = key THEN value ELSE d[k]]

\* A removal that empties the dict.
DictDelAll(d, key) == <<>>

\* A removal that removes nothing.
DictDelNothing(d, key) == d

\* del dict[key], dict.pop(key)
DictDel(d, key) == [k \in DOMAIN d \ {key} |-> d[k]]

\* A call that hands the handler another message.
call_other_msg(handler, msg) == [handler |-> handler, msg |-> Msg3, topic |-> <<>>]

\* A call of an endpoint handler or of a response callback.
call(handler, msg) == [handler |-> handler, msg |-> msg, topic |-> <<>>]

\* A register that replaces the handler of a registered endpoint.
register_overwrites(endpoint, handler) ==
    /\ _endpoints' = DictSet(_endpoints, endpoint, handler)
    /\ last' = [op |-> "register",
                args |-> [endpoint |-> endpoint, handler |-> handler],
                outcome |-> "ok", raised |-> FALSE]
    /\ invoked' = <<>>
    /\ emitted' = <<>>
    /\ UNCHANGED <<fixed, stack, trace>>
    /\ UNCHANGED <<_patterns, _subscriptions, _correlation_index,
                   sent_count, req_count, res_count, pub_count,
                   registered, cache_by, cb_calls, first_cb>>

register(endpoint, handler) ==
    /\ _endpoints' = IF endpoint \in DOMAIN _endpoints THEN _endpoints
                     ELSE DictSet(_endpoints, endpoint, handler)
    /\ last' = [op |-> "register",
                args |-> [endpoint |-> endpoint, handler |-> handler],
                outcome |-> IF endpoint \in DOMAIN _endpoints THEN "KeyError" ELSE "ok",
                raised |-> endpoint \in DOMAIN _endpoints]
    /\ invoked' = <<>>
    /\ emitted' = <<>>
    /\ UNCHANGED <<fixed, stack, trace>>
    /\ UNCHANGED <<_patterns, _subscriptions, _correlation_index,
                   sent_count, req_count, res_count, pub_count,
                   registered, cache_by, cb_calls, first_cb>>

deregister(endpoint, handler) ==
    LET outcome == IF endpoint \notin DOMAIN _endpoints THEN "KeyError"
                   ELSE IF handler # _endpoints[endpoint] THEN "ValueError"
                   ELSE "ok"
    IN
    /\ _endpoints' = IF outcome = "ok" THEN DictDel(_endpoints, endpoint) ELSE _endpoints
    /\ last' = [op |-> "deregister",
                args |-> [endpoint |-> endpoint, handler |-> handler],
                outcome |-> outcome,
                raised |-> outcome # "ok"]
    /\ invoked' = <<>>
    /\ emitted' = <<>>
    /\ UNCHANGED <<fixed, stack, trace>>
    /\ UNCHANGED <<_patterns, _subscriptions, _correlation_index,
                   sent_count, req_count, res_count, pub_count,
                   registered, cache_by, cb_calls, first_cb>>

send(endpoint, msg) ==
    LET found == endpoint \in DOMAIN _endpoints IN
    /\ sent_count < MaxCount
    /\ invoked' = IF found THEN <<call(_endpoints[endpoint], msg)>> ELSE <<>>
    /\ sent_count' = counted(sent_count, found /\ ~raises(invoked'))
    /\ last' = [op |-> "send",
                args |-> [endpoint |-> endpoint, msg |-> msg],
                outcome |-> IF found THEN "sent" ELSE "no_endpoint",
                raised |-> raises(invoked')]
    /\ emitted' = <<>>
    /\ UNCHANGED <<fixed, stack, trace>>
    /\ UNCHANGED <<_endpoints, _patterns, _subscriptions, _correlation_index,
                   req_count, res_count, pub_count,
                   registered, cache_by, cb_calls, first_cb>>

\* ------------------------------------------------------------------ request
\* request_id in self._correlation_index
is_pending_request(request_id) == request_id \in DOMAIN _correlation_index

\* An insert that does not look for a duplicate id.
request_index_overwrites(req) == DictSet(_correlation_index, req.id, req.callback)

\* The correlation index after the duplicate check and the insert of request.
request_index(req) ==
    IF req.id \in DOMAIN _correlation_index THEN _correlation_index
    ELSE DictSet(_correlation_index, req.id, req.callback)

\* A request that looks the endpoint up before it stores the callback.
request_checks_endpoint_first(endpoint, req) ==
    LET duplicate == req.id \in DOMAIN _correlation_index
        found == endpoint \in DOMAIN _endpoints
    IN
    /\ req_count < MaxCount
    /\ _correlation_index' = IF found THEN request_index(req) ELSE _correlation_index
    /\ invoked' = IF ~duplicate /\ found THEN <<call(_endpoints[endpoint], req)>> ELSE <<>>
    /\ req_count' = counted(req_count, ~duplicate /\ found /\ ~raises(invoked'))
    /\ cb_calls' = IF duplicate \/ ~found THEN cb_calls ELSE [cb_calls EXCEPT ![req.id] = 0]
    /\ first_cb' = IF duplicate \/ ~found THEN first_cb
                   ELSE DictSet(first_cb, req.id, req.callback)
    /\ last' = [op |-> "request",
                args |-> [endpoint |-> endpoint, request |-> req],
                outcome |-> IF duplicate THEN "duplicate"
                            ELSE IF found THEN "handled" ELSE "no_endpoint",
                raised |-> raises(invoked')]
    /\ emitted' = <<>>
    /\ UNCHANGED <<fixed, stack, trace>>
    /\ UNCHANGED <<_endpoints, _patterns, _subscriptions,
                   sent_count, res_count, pub_count, registered, cache_by>>

request(endpoint, req) ==
    LET duplicate == req.id \in DOMAIN _correlation_index
        found == endpoint \in DOMAIN _endpoints
    IN
    /\ req_count < MaxCount
    /\ _correlation_index' = request_index(req)
    /\ invoked' = IF ~duplicate /\ found THEN <<call(_endpoints[endpoint], req)>> ELSE <<>>
    /\ req_count' = counted(req_count, ~duplicate /\ found /\ ~raises(invoked'))
    /\ cb_calls' = IF duplicate THEN cb_calls ELSE [cb_calls EXCEPT ![req.id] = 0]
    /\ first_cb' = IF duplicate THEN first_cb ELSE DictSet(first_cb, req.id, req.callback)
    /\ last' = [op |-> "request",
                args |-> [endpoint |-> endpoint, request |-> req],
                outcome |-> IF duplicate THEN "duplicate"
                            ELSE IF found THEN "handled" ELSE "no_endpoint",
                raised |-> raises(invoked')]
    /\ emitted' = <<>>
    /\ UNCHANGED <<fixed, stack, trace>>
    /\ UNCHANGED <<_endpoints, _patterns, _subscriptions,
                   sent_count, res_count, pub_count, registered, cache_by>>

\* ------------------------------------------------------------------ response
response(resp) ==
    LET id == resp.correlation_id
        found == id \in DOMAIN _correlation_index
    IN
    /\ res_count < MaxCount
    /\ _correlation_index' = IF found THEN DictDel(_correlation_index, id)
                             ELSE _correlation_index
    /\ invoked' = IF found THEN <<call(_correlation_index[id], resp)>> ELSE <<>>
    /\ res_count' = counted(res_count, found /\ ~raises(invoked'))
    /\ cb_calls' = IF found THEN [cb_calls EXCEPT ![id] = @ + 1] ELSE cb_calls
    /\ first_cb' = IF found THEN DictDel(first_cb, id) ELSE first_cb
    /\ last' = [op |-> "response",
                args |-> [response |-> resp],
                outcome |-> IF found THEN "handled" ELSE "no_callback",
                raised |-> raises(invoked')]
    /\ emitted' = <<>>
    /\ UNCHANGED <<fixed, stack, trace>>
    /\ UNCHANGED <<_endpoints, _patterns, _subscriptions,
                   sent_count, req_count, pub_count, registered, cache_by>>

\* ------------------------------------------------------------------ is_matching
\* A bus whose caller is about to apply is_matching to a topic and a pattern.
InitMatch ==
    /\ construct(FALSE, "None", NoFilter)
    /\ raising = {}
    /\ \E topic \in MatchStrings, pattern \in MatchStrings :
           last = [op |-> "init", args |-> [topic |-> topic, pattern |-> pattern],
                   outcome |-> "ok", raised |-> FALSE]
    /\ trace = <<>>

\* is_matching(topic, pattern), called on the arguments drawn.
is_matching_call ==
    /\ last.op = "init"
    /\ last' = [op |-> "is_matching", args |-> last.args, outcome |-> "ok",
                raised |-> FALSE,
                result |-> is_matching(last.args.topic, last.args.pattern)]
    /\ UNCHANGED <<tables, counters, invoked, registered, cache_by, cb_calls, first_cb,
                   fixed, emitted, stack, trace>>

\* ------------------------------------------------------------------ specifications
NextPubSub ==
    \/ \E k \in SubKeys, priority \in Priorities : subscribe(k.topic, k.handler, priority)
    \/ \E k \in SubKeys : unsubscribe(k.topic, k.handler)
    \/ \E topic \in PubTopics, msg \in Msgs : publish(topic, msg)

NextReqRep ==
    \/ \E endpoint \in Endpoints, handler \in EndpointHandlers : register(endpoint, handler)
    \/ \E endpoint \in Endpoints, handler \in EndpointHandlers : deregister(endpoint, handler)
    \/ \E endpoint \in Endpoints, msg \in Msgs : send(endpoint, msg)
    \/ \E endpoint \in Endpoints, req \in Requests : request(endpoint, req)
    \/ \E resp \in Responses : response(resp)

\* Every call, over a narrower choice of arguments: one pattern, one topic, one
\* endpoint with one handler, two request ids with one callback.
Next ==
    \/ \E priority \in Priorities : subscribe(Str_aStar, "h1", priority)
    \/ unsubscribe(Str_aStar, "h1")
    \/ publish(Str_ab, Msg1)
    \/ register("svc", "e1")
    \/ deregister("svc", "e1")
    \/ send("svc", Msg1)
    \/ \E id \in RequestIds : request("svc", [id |-> id, callback |-> "cb1"])
    \/ \E resp \in Responses : response(resp)

Spec == Init /\ [][Next]_vars

\* The publish/subscribe calls alone, and the endpoint and request/response
\* calls alone, each over the full choice of arguments.
SpecPubSub == Init /\ [][NextPubSub]_vars
SpecReqRep == Init /\ [][NextReqRep]_vars

\* A bus with a database and a serializer, and handlers that raise: every
\* call but unsubscribe and deregister, over two subscriptions to one pattern,
\* one topic, one endpoint and two request ids.
InitRaise ==
    /\ construct(TRUE, "serializer", NoFilter)
    /\ raising \in SUBSET MayRaise
    /\ last = [op |-> "init", args |-> <<>>, outcome |-> "ok", raised |-> FALSE]
    /\ trace = <<>>

NextRaise ==
    \/ \E handler \in {"h1", "h2"}, priority \in Priorities :
           subscribe(Str_aStar, handler, priority)
    \/ publish(Str_ab, Msg1)
    \/ register("svc", "e1")
    \/ send("svc", Msg1)
    \/ \E id \in RequestIds : request("svc", [id |-> id, callback |-> "cb1"])
    \/ \E resp \in Responses : response(resp)

SpecRaise == InitRaise /\ [][NextRaise]_vars

\* publish_c step by step, with handlers that subscribe, unsubscribe and
\* publish: two subscriptions that match the one topic; the first publish
\* carries one message, the later ones another.
ReentrantSubs == {Subscription(Str_aStar, "h1", 1), Subscription(Str_ab, "h2", 0)}

NextReentrant ==
    \/ \E k \in ReentrantSubs : may_call /\ subscribe(k.topic, k.handler, k.priority)
    \/ \E k \in ReentrantSubs : may_call /\ unsubscribe(k.topic, k.handler)
    \/ publish_c_begin(Str_ab, IF begun = 0 THEN Msg1 ELSE Msg2)
    \/ publish_c_call
    \/ handler_return
    \/ publish_c_external
    \/ publish_c_count

SpecReentrant == Init /\ [][NextReentrant]_vars

\* A bus constructed with or without a database, a serializer and a filter,
\* the arguments kept as the first entry of `trace`; publish_c step by step
\* for messages of three types, one of them never publishable.
InitSink ==
    /\ \E database \in BOOLEAN, serializer \in Serializers, types_filter \in TypesFilters :
           /\ construct(database, serializer, types_filter)
           /\ trace = <<[kind |-> "construct", id |-> 0, database |-> database,
                         serializer |-> serializer, types_filter |-> types_filter]>>
    /\ raising = {}
    /\ last = [op |-> "init", args |-> <<>>, outcome |-> "ok", raised |-> FALSE]

NextSink ==
    \/ \E k \in ReentrantSubs : may_call /\ subscribe(k.topic, k.handler, k.priority)
    \/ \E msg \in {Msg1, Msg2, Msg3} : publish_c_begin(Str_ab, msg)
    \/ publish_c_call
    \/ handler_return
    \/ publish_c_external
    \/ publish_c_count

SpecSink == InitSink /\ [][NextSink]_vars

\* The owner of the bus notes the subscription index and the resolution
\* cache, as the first entry of `trace`.
snapshot ==
    /\ trace = <<>> /\ stack = <<>>
    /\ trace' = <<[kind |-> "snapshot", id |-> 0,
                   subscriptions |-> _subscriptions, patterns |-> _patterns]>>
    /\ last' = [op |-> "snapshot", args |-> <<>>, outcome |-> "ok", raised |-> FALSE]
    /\ UNCHANGED <<tables, counters, invoked, emitted, registered, cache_by,
                   cb_calls, first_cb, fixed, stack>>

\* Any subscribe, unsubscribe and publish calls; then, the index and the cache
\* noted, a subscribe of a subscription that is not in the index and, right
\* after it, the unsubscribe of the same topic and handler.
NextRoundTrip ==
    \/ \E k \in SubKeys, priority \in Priorities :
           trace = <<>> /\ subscribe(k.topic, k.handler, priority)
    \/ \E k \in SubKeys : trace = <<>> /\ unsubscribe(k.topic, k.handler)
    \/ \E topic \in PubTopics : trace = <<>> /\ publish(topic, Msg1)
    \/ snapshot
    \/ \E k \in SubKeys, priority \in Priorities :
           /\ last.op = "snapshot"
           /\ ~HasSub(_subscriptions, Subscription(k.topic, k.handler, priority))
           /\ subscribe(k.topic, k.handler, priority)
    \/ /\ trace # <<>> /\ last.op = "subscribe"
       /\ unsubscribe(last.args.topic, last.args.handler)

SpecRoundTrip == Init /\ [][NextRoundTrip]_vars

\* is_matching alone, over every pair of strings.
NextMatch == is_matching_call
SpecMatch == InitMatch /\ [][NextMatch]_vars

\* ------------------------------------------------------------------ claims
\* The same (topic, handler), read off the fields.
SameKey(a, b) == a.topic = b.topic /\ a.handler = b.handler

\* The subscriptions in the index.
Keys == {_subscriptions[i].sub : i \in 1..Len(_subscriptions)}

\* C1: after a successful subscribe(p, h), every later publish(T, m) of a
\* concrete topic T that p matches invokes h with m, also when T was cached
\* before the subscribe.
C1_SubscriberIsInvoked ==
    (last.op = "publish" /\ IsConcrete(last.args.topic)) =>
        \A i \in 1..Len(registered) :
            is_matching(last.args.topic, registered[i].topic) =>
                \E k \in 1..Len(invoked) :
                    /\ invoked[k].handler = registered[i].handler
                    /\ invoked[k].msg = last.args.msg

\* C2 (I2): for every cached concrete topic T, cache[T] holds exactly the
\* subscriptions of the index whose pattern matches T, none missing, none extra,
\* none twice, in priority-descending order.
C2_CacheIsMatchingIndex ==
    \A T \in DOMAIN _patterns :
        IsConcrete(T) =>
            LET want == {sub \in Keys : is_matching(T, sub.topic)}
                have == _patterns[T]
            IN /\ Range(have) = want
               /\ Len(have) = Cardinality(want)
               /\ \A i, j \in 1..Len(have) : i < j => have[i].priority >= have[j].priority

\* C3 (I1): for every subscription of the index and every cached topic T, T is
\* listed against the subscription iff the subscription is in cache[T].
C3_IndexListsCachedTopics ==
    \A i \in 1..Len(_subscriptions) :
        \A T \in DOMAIN _patterns :
            (T \in Range(_subscriptions[i].matches))
                <=> (\E k \in 1..Len(_patterns[T]) :
                        SameKey(_patterns[T][k], _subscriptions[i].sub))

\* An unsubscribe has just rewritten the cache, one subscription is listed
\* against a cached topic and another is not listed against a cached topic.
C3_Witness ==
    /\ last.op = "unsubscribe" /\ last.outcome = "removed"
    /\ \E i \in 1..Len(_subscriptions) : _subscriptions[i].matches # <<>>
    /\ \E i \in 1..Len(_subscriptions) :
           \E T \in DOMAIN _patterns : T \notin Range(_subscriptions[i].matches)

\* C4: within one publish the handlers are invoked in priority-descending
\* order, and those of equal priority in the order their subscriptions were
\* registered.
C4_DispatchOrder ==
    last.op = "publish" =>
        \A i, j \in 1..Len(invoked) :
            i < j =>
                \A ri, rj \in 1..Len(registered) :
                    (SameKey(registered[ri], invoked[i]) /\ SameKey(registered[rj], invoked[j]))
                        => /\ registered[ri].priority >= registered[rj].priority
                           /\ registered[ri].priority = registered[rj].priority => ri < rj

\* A publish of a concrete topic whose cached sequence a subscribe wrote last:
\* the subscriptions were registered with priorities 1, 0, 1 and the first and
\* the third are invoked before the second.
C4_Witness ==
    /\ last.op = "publish" /\ last.outcome = "cached"
    /\ IsConcrete(last.args.topic)
    /\ cache_by[last.args.topic] = "subscribe"
    /\ Len(registered) = 3 /\ Len(invoked) = 3
    /\ registered[1].priority = 1 /\ registered[2].priority = 0 /\ registered[3].priority = 1
    /\ SameKey(invoked[1], registered[1])
    /\ SameKey(invoked[2], registered[3])
    /\ SameKey(invoked[3], registered[2])

\* C5: the first publish of a topic T invokes, with the message, each
\* subscription of the index whose pattern matches T exactly once, and nothing
\* else.
C5_FirstPublishDispatch ==
    (last.op = "publish" /\ last.outcome = "resolved") =>
        LET T == last.args.topic
            m == last.args.msg
        IN /\ \A i \in 1..Len(registered) :
                  is_matching(T, registered[i].topic) =>
                      Cardinality({k \in 1..Len(invoked) :
                                      SameKey(invoked[k], registered[i])
                                          /\ invoked[k].msg = m}) = 1
           /\ \A k \in 1..Len(invoked) :
                  \E i \in 1..Len(registered) :
                      /\ SameKey(invoked[k], registered[i])
                      /\ is_matching(T, registered[i].topic)
                      /\ invoked[k].msg = m

\* A first publish of "ac" with the literal "ab" and both "a*" subscriptions in
\* the index: two handlers are invoked, the literal one is not.
C5_Witness ==
    /\ last.op = "publish" /\ last.outcome = "resolved"
    /\ last.args.topic = Str_ac
    /\ Len(registered) = 3
    /\ Len(invoked) = 2

\* C6: a subscribe(p, h, k2) issued while (p, h) is in the index changes
\* neither the index nor any cached sequence; the index never holds two
\* subscriptions for one (p, h), and a publish invokes no subscription twice.
C6_DuplicateSubscribeNoChange ==
    /\ [](\A i, j \in 1..Len(_subscriptions) :
              SameKey(_subscriptions[i].sub, _subscriptions[j].sub) => i = j)
    /\ [](last.op = "publish" =>
              \A i, j \in 1..Len(invoked) : SameKey(invoked[i], invoked[j]) => i = j)
    /\ [][(/\ last'.op = "subscribe"
            /\ \E i \in 1..Len(_subscriptions) :
                   SameKey(_subscriptions[i].sub, last'.args))
              => (_subscriptions' = _subscriptions /\ _patterns' = _patterns)]_vars

\* A subscribe was dropped as a duplicate although it named another priority
\* than the one the index holds, and the subscription is in a cached sequence.
C6_Witness ==
    /\ last.op = "subscribe" /\ last.outcome = "exists"
    /\ \E i \in 1..Len(_subscriptions) :
           /\ SameKey(_subscriptions[i].sub, last.args)
           /\ _subscriptions[i].sub.priority # last.args.priority
           /\ \E T \in DOMAIN _patterns : _subscriptions[i].sub \in Range(_patterns[T])

\* C7: an unsubscribe(p, h) of an existing subscription leaves it neither in
\* the index nor in any cached sequence and keeps every cache entry; one of a
\* missing (p, h) raises nothing and leaves index and cache unchanged; and a
\* publish only invokes handlers through subscriptions that are still live.
C7_Unsubscribe ==
    /\ [](last.op = "publish" =>
              \A k \in 1..Len(invoked) :
                  \E i \in 1..Len(registered) : SameKey(invoked[k], registered[i]))
    /\ [][last'.op = "unsubscribe" =>
              IF \E i \in 1..Len(_subscriptions) : SameKey(_subscriptions[i].sub, last'.args)
              THEN /\ \A i \in 1..Len(_subscriptions') :
                          ~SameKey(_subscriptions'[i].sub, last'.args)
                   /\ \A T \in DOMAIN _patterns' :
                          \A k \in 1..Len(_patterns'[T]) :
                              ~SameKey(_patterns'[T][k], last'.args)
                   /\ DOMAIN _patterns' = DOMAIN _patterns
              ELSE /\ _subscriptions' = _subscriptions
                   /\ _patterns' = _patterns
                   /\ last'.outcome # "raised"]_vars

\* An unsubscribe removed the only subscription of a cached topic: the entry
\* is still there, empty.
C7_Witness ==
    /\ last.op = "unsubscribe" /\ last.outcome = "removed"
    /\ \E T \in DOMAIN _patterns : _patterns[T] = <<>> /\ cache_by[T] = "unsubscribe"

\* C8: a request id is pending from the request that names it until the first
\* response that names it, and not after that response; no call but a request
\* with that id adds the entry and no call but a response with that id removes
\* it.
C8_CorrelationLifecycle ==
    [][\A X \in RequestIds :
          /\ (last'.op = "request" /\ last'.args.request.id = X)
                 => is_pending_request(X)'
          /\ (last'.op = "response" /\ last'.args.response.correlation_id = X)
                 => ~is_pending_request(X)'
          /\ (~is_pending_request(X) /\ is_pending_request(X)')
                 => (last'.op = "request" /\ last'.args.request.id = X)
          /\ (is_pending_request(X) /\ ~is_pending_request(X)')
                 => (last'.op = "response" /\ last'.args.response.correlation_id = X)
          /\ (is_pending_request(X) /\ is_pending_request(X)')
                 => _correlation_index'[X] = _correlation_index[X]]_vars

\* A response for x1 was handled while x2, requested and never answered, is
\* still pending after publishes, a send and a live subscription.
C8_Witness ==
    /\ last.op = "response" /\ last.outcome = "handled"
    /\ last.args.response.correlation_id = "x1"
    /\ ~is_pending_request("x1")
    /\ is_pending_request("x2")
    /\ pub_count > 0 /\ sent_count > 0 /\ Len(_subscriptions) > 0

\* C9: the callback of an accepted request is invoked at most once; a response
\* whose correlation id is pending invokes that callback with the response and
\* adds one to res_count; any other response invokes nothing and leaves
\* res_count and the correlation index as they are.
C9_AtMostOnceResponse ==
    /\ [](\A X \in RequestIds : cb_calls[X] <= 1)
    /\ [][last'.op = "response" =>
              LET resp == last'.args.response
                  X == resp.correlation_id
              IN IF X \in DOMAIN _correlation_index
                 THEN /\ invoked' = <<[handler |-> _correlation_index[X],
                                       msg |-> resp, topic |-> <<>>]>>
                      /\ res_count' = res_count + 1
                      /\ X \notin DOMAIN _correlation_index'
                 ELSE /\ invoked' = <<>>
                      /\ res_count' = res_count
                      /\ _correlation_index' = _correlation_index
                      /\ last'.outcome = "no_callback"]_vars

\* A second response for an id whose callback was already invoked once.
C9_Witness ==
    /\ last.op = "response" /\ last.outcome = "no_callback"
    /\ cb_calls[last.args.response.correlation_id] = 1
    /\ res_count = 1

\* C10: a request whose id is pending invokes no endpoint handler and changes
\* neither req_count nor the correlation index, and the response to that id
\* invokes the callback of the request that was accepted, and only that.
C10_DuplicateRequestDropped ==
    [][/\ (last'.op = "request"
            /\ last'.args.request.id \in DOMAIN _correlation_index)
              => /\ invoked' = <<>>
                 /\ req_count' = req_count
                 /\ _correlation_index' = _correlation_index
       /\ (last'.op = "response"
            /\ last'.args.response.correlation_id \in DOMAIN first_cb)
              => /\ Len(invoked') = 1
                 /\ invoked'[1].handler = first_cb[last'.args.response.correlation_id]]_vars

\* A request to a registered endpoint was dropped as a duplicate; it carried
\* another callback than the one stored, and req_count is still 1.
C10_Witness ==
    /\ last.op = "request" /\ last.outcome = "duplicate"
    /\ last.args.endpoint \in DOMAIN _endpoints
    /\ _correlation_index[last.args.request.id] # last.args.request.callback
    /\ req_count = 1

\* The calls of a sequence all returned.
AllReturned(calls) == \A k \in 1..Len(calls) : calls[k].handler \notin raising

\* C11: no counter ever goes down; a call adds one to its own counter when it
\* dispatched (send to a registered endpoint, request with a fresh id to a
\* registered endpoint, response to a pending id, publish) and the handlers
\* returned, and no call changes a counter otherwise: not the other three, and
\* not its own on a dropped path (unknown endpoint, duplicate request id,
\* unknown correlation id, duplicate subscription, unknown subscription).
C11_Counters ==
    [][LET op == last'.op
           a == last'.args
       IN
       /\ sent_count' >= sent_count /\ req_count' >= req_count
       /\ res_count' >= res_count /\ pub_count' >= pub_count
       /\ sent_count' = IF /\ op = "send"
                          /\ a.endpoint \in DOMAIN _endpoints
                          /\ AllReturned(invoked')
                       THEN sent_count + 1 ELSE sent_count
       /\ req_count' = IF /\ op = "request"
                         /\ a.request.id \notin DOMAIN _correlation_index
                         /\ a.endpoint \in DOMAIN _endpoints
                         /\ AllReturned(invoked')
                      THEN req_count + 1 ELSE req_count
       /\ res_count' = IF /\ op = "response"
                         /\ a.response.correlation_id \in DOMAIN _correlation_index
                         /\ AllReturned(invoked')
                      THEN res_count + 1 ELSE res_count
       /\ pub_count' = IF op = "publish" /\ AllReturned(invoked')
                      THEN pub_count + 1 ELSE pub_count]_vars

\* Each counter was incremented once, and the last call, a send to an endpoint
\* that is not registered, was dropped.
C11_Witness ==
    /\ sent_count = 1 /\ req_count = 1 /\ res_count = 1 /\ pub_count = 1
    /\ last.op = "send" /\ last.args.endpoint \notin DOMAIN _endpoints

\* C12: a send to an endpoint that is not registered does not raise, invokes
\* no handler and changes neither sent_count nor a table; a send to a
\* registered endpoint invokes that endpoint's handler, once, with the message,
\* and sent_count goes up by one.
C12_Send ==
    [][last'.op = "send" =>
          LET a == last'.args IN
          IF a.endpoint \notin DOMAIN _endpoints
          THEN /\ ~last'.raised
               /\ invoked' = <<>>
               /\ sent_count' = sent_count
               /\ tables' = tables
          ELSE /\ Len(invoked') = 1
               /\ invoked'[1].handler = _endpoints[a.endpoint]
               /\ invoked'[1].msg = a.msg
               /\ sent_count' = sent_count + 1]_vars

\* A send to an endpoint that is not registered, after a send that was
\* delivered, while another endpoint is registered.
C12_Witness ==
    /\ last.op = "send" /\ last.args.endpoint \notin DOMAIN _endpoints
    /\ invoked = <<>>
    /\ sent_count = 1
    /\ DOMAIN _endpoints # {}

\* C13: register on a registered endpoint raises and keeps the stored handler;
\* deregister raises when the endpoint is not registered (KeyError) and when
\* the stored handler is another one (ValueError); a call that raises leaves
\* the endpoint table as it was; the handler of an endpoint never changes while
\* the endpoint stays registered, an endpoint is added only by a register of
\* it and removed only by a deregister of it with its handler.
C13_EndpointTable ==
    [][LET op == last'.op
           a == last'.args
       IN
       /\ (op = "register" /\ a.endpoint \in DOMAIN _endpoints)
              => /\ last'.raised /\ last'.outcome = "KeyError"
                 /\ _endpoints' = _endpoints
       /\ (op = "register" /\ a.endpoint \notin DOMAIN _endpoints)
              => /\ ~last'.raised
                 /\ DOMAIN _endpoints' = DOMAIN _endpoints \cup {a.endpoint}
                 /\ _endpoints'[a.endpoint] = a.handler
       /\ (op = "deregister" /\ a.endpoint \notin DOMAIN _endpoints)
              => /\ last'.raised /\ last'.outcome = "KeyError"
                 /\ _endpoints' = _endpoints
       /\ (op = "deregister" /\ a.endpoint \in DOMAIN _endpoints
              /\ _endpoints[a.endpoint] # a.handler)
              => /\ last'.raised /\ last'.outcome = "ValueError"
                 /\ _endpoints' = _endpoints
       /\ (op = "deregister" /\ a.endpoint \in DOMAIN _endpoints
              /\ _endpoints[a.endpoint] = a.handler)
              => /\ ~last'.raised
                 /\ DOMAIN _endpoints' = DOMAIN _endpoints \ {a.endpoint}
       /\ op \notin {"register", "deregister"} => DOMAIN _endpoints' = DOMAIN _endpoints
       /\ \A e \in DOMAIN _endpoints \cap DOMAIN _endpoints' :
              _endpoints'[e] = _endpoints[e]]_vars

\* A register of a registered endpoint with another handler raised, and the
\* endpoint still has the handler it had.
C13_Witness ==
    /\ last.op = "register" /\ last.raised
    /\ last.args.endpoint \in DOMAIN _endpoints
    /\ _endpoints[last.args.endpoint] # last.args.handler

\* C18: a request with a fresh id to an endpoint that is not registered stores
\* its callback under its id, invokes no handler and leaves req_count as it
\* was, so that the id is pending afterwards; while req_count is 0, so that
\* every pending id was stored by such a request, a request that repeats a
\* pending id is dropped also when its endpoint is registered by then, and a
\* response to a pending id invokes the stored callback and adds one to
\* res_count, req_count staying 0.
C18_RequestToMissingEndpoint ==
    [][LET op == last'.op
           a == last'.args
       IN
       /\ (op = "request"
            /\ a.request.id \notin DOMAIN _correlation_index
            /\ a.endpoint \notin DOMAIN _endpoints)
              => /\ DOMAIN _correlation_index' = DOMAIN _correlation_index \cup {a.request.id}
                 /\ _correlation_index'[a.request.id] = a.request.callback
                 /\ \A id \in DOMAIN _correlation_index :
                        _correlation_index'[id] = _correlation_index[id]
                 /\ a.request.id \in DOMAIN _correlation_index'
                 /\ invoked' = <<>>
                 /\ req_count' = req_count
       /\ (op = "request" /\ req_count = 0
            /\ a.request.id \in DOMAIN _correlation_index)
              => /\ last'.outcome = "duplicate"
                 /\ invoked' = <<>>
                 /\ _correlation_index' = _correlation_index
                 /\ req_count' = 0
       /\ (op = "response" /\ req_count = 0
            /\ a.response.correlation_id \in DOMAIN _correlation_index)
              => /\ Len(invoked') = 1
                 /\ invoked'[1].handler = _correlation_index[a.response.correlation_id]
                 /\ invoked'[1].msg = a.response
                 /\ res_count' = res_count + 1
                 /\ req_count' = 0]_vars

\* A response was delivered to a callback while no request was ever delivered,
\* and the endpoint the request named is registered by now.
C18_Witness ==
    /\ last.op = "response" /\ Len(invoked) = 1
    /\ res_count = 1 /\ req_count = 0
    /\ DOMAIN _endpoints = Endpoints

RECURSIVE Matches(_, _)
\* The reference semantics of a pattern: `*` stands for any string, the empty
\* one included, `?` for any one character, another character for itself.
Matches(t, p) ==
    IF p = <<>> THEN t = <<>>
    ELSE IF Head(p) = STAR
         THEN Matches(t, Tail(p)) \/ (t # <<>> /\ Matches(Tail(t), p))
    ELSE /\ t # <<>>
         /\ (Head(p) = QMARK \/ Head(p) = Head(t))
         /\ Matches(Tail(t), Tail(p))

C20_NoSpuriousDelivery ==
    /\ \A T \in DOMAIN _patterns :
           IsConcrete(T) =>
               \A i \in 1..Len(_patterns[T]) :
                   /\ \E k \in Keys : SameKey(k, _patterns[T][i])
                   /\ Matches(T, _patterns[T][i].topic)
                   /\ \A j \in 1..Len(_patterns[T]) :
                          j # i => ~SameKey(_patterns[T][j], _patterns[T][i])
    /\ (last.op = "publish" /\ IsConcrete(last.args.topic)) =>
           \A i \in 1..Len(invoked) :
               /\ \E r \in Range(registered) : SameKey(r, invoked[i])
               /\ Matches(last.args.topic, invoked[i].topic)
               /\ \A j \in 1..Len(invoked) : j # i => ~SameKey(invoked[j], invoked[i])

\* A publish of a concrete topic invoked a handler from a cached sequence that
\* an unsubscribe rewrote, while two subscriptions are live.
C20_Witness ==
    /\ last.op = "publish" /\ IsConcrete(last.args.topic)
    /\ last.outcome = "cached"
    /\ cache_by[last.args.topic] = "unsubscribe"
    /\ Len(invoked) >= 1
    /\ Len(registered) = 2

\* The first position of a sequence of subscriptions whose handler raises.
FirstRaising(subs) ==
    CHOOSE i \in 1..Len(subs) :
        /\ subs[i].handler \in raising
        /\ \A k \in 1..(i - 1) : subs[k].handler \notin raising

\* C19: an exception of a handler leaves the call at that point and reaches the
\* caller. In publish the handlers after the one that raised are not invoked,
\* nothing is given to the external sink and pub_count stays; in send and in
\* request the counter stays, and the callback of the request stays stored; in
\* response the entry is gone and res_count stays.
C19_HandlerRaises ==
    [][LET op == last'.op
           a == last'.args
       IN
       /\ op = "publish" =>
              LET subs == _patterns'[a.topic] IN
              (\E i \in 1..Len(subs) : subs[i].handler \in raising) =>
                  /\ last'.raised
                  /\ Len(invoked') = FirstRaising(subs)
                  /\ \A i \in 1..Len(invoked') :
                         /\ invoked'[i].handler = subs[i].handler
                         /\ invoked'[i].msg = a.msg
                  /\ emitted' = <<>>
                  /\ pub_count' = pub_count
       /\ (op = "send" /\ a.endpoint \in DOMAIN _endpoints
            /\ _endpoints[a.endpoint] \in raising)
              => /\ last'.raised
                 /\ Len(invoked') = 1 /\ invoked'[1].handler = _endpoints[a.endpoint]
                 /\ sent_count' = sent_count
       /\ (op = "request" /\ a.request.id \notin DOMAIN _correlation_index
            /\ a.endpoint \in DOMAIN _endpoints /\ _endpoints[a.endpoint] \in raising)
              => /\ last'.raised
                 /\ Len(invoked') = 1 /\ invoked'[1].handler = _endpoints[a.endpoint]
                 /\ req_count' = req_count
                 /\ a.request.id \in DOMAIN _correlation_index'
                 /\ _correlation_index'[a.request.id] = a.request.callback
       /\ (op = "response" /\ a.response.correlation_id \in DOMAIN _correlation_index
            /\ _correlation_index[a.response.correlation_id] \in raising)
              => /\ last'.raised
                 /\ Len(invoked') = 1
                 /\ invoked'[1].handler = _correlation_index[a.response.correlation_id]
                 /\ a.response.correlation_id \notin DOMAIN _correlation_index'
                 /\ res_count' = res_count]_vars

\* A publish of a message the sink would be given: the first of two handlers
\* raised, the second was not invoked, and nothing was emitted or counted.
C19_Witness ==
    /\ last.op = "publish" /\ last.raised
    /\ Len(_patterns[last.args.topic]) = 2
    /\ Len(invoked) = 1
    /\ _has_backing /\ _serializer # "None" /\ last.args.msg.type \in _publishable_types
    /\ emitted = <<>>
    /\ pub_count = 0

\* The events of one kind that publish_c number id left in the trace, in order.
EventsOf(kind, id) == SelectSeq(trace, LAMBDA ev : ev.kind = kind /\ ev.id = id)

\* publish_c number id has returned.
Finished(id) == EventsOf("count", id) # <<>>

\* C14: a publish_c invokes the handlers of the sequence that was cached for
\* its topic when its dispatch began, in that order and with its message, all
\* of them once it has returned, whatever the handlers subscribe or
\* unsubscribe meanwhile; and a publish_c that begins takes the sequence that
\* is cached for the topic at that moment.
C14_SnapshotDispatch ==
    /\ [](\A id \in 1..begun :
              LET b == EventsOf("begin", id)[1]
                  calls == EventsOf("call", id)
              IN
              /\ Len(calls) <= Len(b.subs)
              /\ \A n \in 1..Len(calls) :
                     /\ calls[n].handler = b.subs[n].handler
                     /\ calls[n].topic = b.subs[n].topic
                     /\ calls[n].msg = b.msg
              /\ Finished(id) => Len(calls) = Len(b.subs))
    /\ [][Len(stack') > Len(stack) =>
              /\ stack'[Len(stack')].subs = _patterns'[stack'[Len(stack')].topic]
              /\ stack'[Len(stack')].topic \in DOMAIN _patterns =>
                     stack'[Len(stack')].subs = _patterns[stack'[Len(stack')].topic]]_vars

\* No publish_c is in flight; one invoked a handler whose subscription was no
\* longer in the cached sequence at the time of the call, and one returned
\* without having invoked a handler that was in the cached sequence by then.
C14_Witness ==
    /\ stack = <<>>
    /\ \E n \in 1..Len(trace) :
           /\ trace[n].kind = "call"
           /\ \A j \in 1..Len(trace[n].cache) : ~SameKey(trace[n].cache[j], trace[n])
    /\ \E id \in 1..begun :
           /\ Finished(id)
           /\ \E j \in 1..Len(EventsOf("count", id)[1].cache) :
                  \A n \in 1..Len(EventsOf("call", id)) :
                      ~SameKey(EventsOf("count", id)[1].cache[j], EventsOf("call", id)[n])

\* C15: of two publish calls that both reach a handler, the handler gets the
\* message of the call that was made first before the message of the other,
\* a publish made by a handler counting as made when the handler makes it.
C15_PublishFifo ==
    \A n1 \in 1..Len(trace), n2 \in 1..Len(trace) :
        (/\ trace[n1].kind = "call" /\ trace[n2].kind = "call"
         /\ trace[n1].id < trace[n2].id
         /\ SameKey(trace[n1], trace[n2]))
            => n1 < n2

\* The places of the events of one kind that publish_c number id left.
PlacesOf(kind, id) == {n \in 1..Len(trace) : trace[n].kind = kind /\ trace[n].id = id}

\* What the bus was constructed with.
Constructed == trace[1]

\* C16: a publish_c gives the external sink one pair, its topic and its
\* message serialized, when the bus was constructed with a database and with a
\* serializer and the type of the message is one of EXTERNAL_PUBLISHING_TYPES
\* that the filter does not name, and nothing otherwise; the pair is given
\* after every handler of the publish_c has returned and before pub_count is
\* incremented; and a message that is not given to the sink reaches every
\* handler and is counted all the same.
C16_ExternalEmission ==
    /\ pub_count = Cardinality({n \in 1..Len(trace) : trace[n].kind = "count"})
    /\ \A id \in 1..begun :
           LET b == EventsOf("begin", id)[1]
               emits == EventsOf("emit", id)
               wanted == /\ Constructed.database
                         /\ Constructed.serializer # "None"
                         /\ b.msg.type \in EXTERNAL_PUBLISHING_TYPES
                         /\ (Constructed.types_filter.is_none
                                \/ b.msg.type \notin Constructed.types_filter.types)
           IN
           /\ Len(emits) <= 1
           /\ ~wanted => emits = <<>>
           /\ \A n \in 1..Len(emits) :
                  emits[n].pair = [topic |-> b.topic, payload |-> serialize(b.msg)]
           /\ \A e \in PlacesOf("emit", id) :
                  /\ Len(EventsOf("return", id)) = Len(b.subs)
                  /\ \A r \in PlacesOf("return", id) : r < e
                  /\ \A c \in PlacesOf("count", id) : e < c
           /\ Finished(id) =>
                  /\ Len(emits) = IF wanted THEN 1 ELSE 0
                  /\ Len(EventsOf("return", id)) = Len(b.subs)
                  /\ \A n \in 1..Len(b.subs) :
                         /\ EventsOf("call", id)[n].handler = b.subs[n].handler
                         /\ EventsOf("call", id)[n].msg = b.msg

\* With a database, a serializer and a filter that names TypeB: a message of
\* TypeB went to two handlers and was counted, not emitted; a message of TypeA
\* was emitted.
C16_Witness ==
    /\ stack = <<>>
    /\ Constructed.database /\ Constructed.serializer # "None"
    /\ ~Constructed.types_filter.is_none
    /\ \E id \in 1..begun :
           /\ Finished(id)
           /\ EventsOf("begin", id)[1].msg = Msg2
           /\ Len(EventsOf("call", id)) = 2
           /\ EventsOf("emit", id) = <<>>
    /\ \E id \in 1..begun :
           /\ Finished(id)
           /\ EventsOf("begin", id)[1].msg = Msg1
           /\ Len(EventsOf("emit", id)) = 1
    /\ pub_count = 2

\* C21: a subscribe of a topic and handler that are not in the index, followed
\* at once by the unsubscribe of them, leaves the subscription index and the
\* resolution cache as they were before the subscribe: the same keys in the
\* same order with the same lists, the same cached sequences in the same
\* order; for either priority and every state the calls before can leave.
C21_RoundTrip ==
    (trace # <<>> /\ last.op = "unsubscribe") =>
        /\ last.outcome = "removed"
        /\ _subscriptions = trace[1].subscriptions
        /\ _patterns = trace[1].patterns

\* The round trip was made for the topic 'ab' while 'ab' was cached with two
\* subscriptions: the subscribe rewrote that sequence, the unsubscribe again.
C21_Witness ==
    /\ trace # <<>> /\ last.op = "unsubscribe"
    /\ last.args.topic = Str_ab
    /\ Str_ab \in DOMAIN _patterns
    /\ Len(_patterns[Str_ab]) = 2
    /\ cache_by[Str_ab] = "unsubscribe"

\* C22: send, request, response, register and deregister change neither the
\* subscription index nor the resolution cache; subscribe, unsubscribe and
\* publish change neither the endpoint table nor the correlation table; a
\* publish of a cached topic changes neither the index nor the cache; a topic
\* enters the cache only by the first publish of it, and no call takes a topic
\* out of the cache. The handlers here do not call the bus.
C22_FrameSeparation ==
    [][LET op == last'.op
           a == last'.args
       IN
       /\ op \in {"send", "request", "response", "register", "deregister"}
              => /\ _subscriptions' = _subscriptions
                 /\ _patterns' = _patterns
       /\ op \in {"subscribe", "unsubscribe", "publish"}
              => /\ _endpoints' = _endpoints
                 /\ _correlation_index' = _correlation_index
       /\ (op = "publish" /\ a.topic \in DOMAIN _patterns)
              => /\ _subscriptions' = _subscriptions
                 /\ _patterns' = _patterns
       /\ DOMAIN _patterns \subseteq DOMAIN _patterns'
       /\ DOMAIN _patterns' # DOMAIN _patterns
              => /\ op = "publish"
                 /\ a.topic \notin DOMAIN _patterns
                 /\ DOMAIN _patterns' = DOMAIN _patterns \cup {a.topic}]_vars

\* A publish of a cached topic, with a subscription in the index that the
\* cached sequence lacks, while an endpoint is registered and a request pending.
C22_Witness ==
    /\ last.op = "publish" /\ last.outcome = "cached"
    /\ _subscriptions # <<>>
    /\ _patterns[last.args.topic] = <<>>
    /\ _endpoints # <<>>
    /\ _correlation_index # <<>>

====
